---------------------------- MODULE Spec2Model ----------------------------
(***************************************************************************)
(* News scoring service (backend/services/news_scoring_service.py):        *)
(* the keyword scorer quick_score_article, the AI-delegated scorer         *)
(* ai_score_article, the batch runner batch_score_articles and the         *)
(* categorizer group_articles_by_category.                                 *)
(*                                                                         *)
(* Python strings are modelled as sequences of one-character strings, so   *)
(* that `in`, startswith, lower and the regular expressions are computed   *)
(* on characters, as the code computes them.                               *)
(***************************************************************************)
EXTENDS Integers, Sequences, FiniteSets, TLC

\* ------------------------------------------------------------------------
\* Bounds of the model
\* ------------------------------------------------------------------------

\* Number of phrases joined (with single spaces) into a title in SpecScore.
MaxTitleParts == 2

\* Length of the list handed to batch_score_articles in Spec.
MaxArticles == 2

\* Calls of quick_score_article made on one input in SpecScore.
MaxScoreCalls == 2

\* ------------------------------------------------------------------------
\* Characters and strings
\* ------------------------------------------------------------------------

UPPERCASE ==
  <<"A","B","C","D","E","F","G","H","I","J","K","L","M",
    "N","O","P","Q","R","S","T","U","V","W","X","Y","Z">>

LOWERCASE ==
  <<"a","b","c","d","e","f","g","h","i","j","k","l","m",
    "n","o","p","q","r","s","t","u","v","w","x","y","z">>

DIGITS == {"0","1","2","3","4","5","6","7","8","9"}

\* \s of the re module, on the characters the model uses.
WHITESPACE == {" ", "\n", "\t"}

IsUpper(c) == \E k \in 1..Len(UPPERCASE) : UPPERCASE[k] = c

IsLower(c) == \E k \in 1..Len(LOWERCASE) : LOWERCASE[k] = c

\* \w of the re module: letters, digits and the underscore.
IsWordChar(c) == IsUpper(c) \/ IsLower(c) \/ c \in DIGITS \/ c = "_"

LowerChar(c) ==
  IF IsUpper(c)
    THEN LOWERCASE[CHOOSE k \in 1..Len(UPPERCASE) : UPPERCASE[k] = c]
    ELSE c

\* str.lower()
lower(s) == [i \in 1..Len(s) |-> LowerChar(s[i])]

\* Whether sub occurs in s at position i.
MatchAt(sub, s, i) ==
  /\ i >= 1
  /\ i + Len(sub) - 1 <= Len(s)
  /\ \A j \in 1..Len(sub) : s[i + j - 1] = sub[j]

\* Python's `sub in s` on strings.
Contains(sub, s) ==
  \/ sub = <<>>
  \/ \E i \in 1..(Len(s) - Len(sub) + 1) :
       s[i] = sub[1] /\ SubSeq(s, i, i + Len(sub) - 1) = sub

\* str.startswith(prefix)
StartsWith(s, prefix) == MatchAt(prefix, s, 1)

\* The first position >= i of s that holds no whitespace (Len(s)+1 if none).
RECURSIVE SkipSpace(_, _)
SkipSpace(s, i) ==
  IF i <= Len(s) /\ s[i] \in WHITESPACE THEN SkipSpace(s, i + 1) ELSE i

\* The first position >= i of s that is neither a digit nor a comma.
RECURSIVE SkipDigitsCommas(_, _)
SkipDigitsCommas(s, i) ==
  IF i <= Len(s) /\ (s[i] \in DIGITS \/ s[i] = ",")
    THEN SkipDigitsCommas(s, i + 1)
    ELSE i

Max(a, b) == IF a >= b THEN a ELSE b

Min(a, b) == IF a <= b THEN a ELSE b

\* ------------------------------------------------------------------------
\* Keyword tables
\* ------------------------------------------------------------------------

\* HIGH_VALUE_TRIGGERS, in list order, duplicates kept (crash, collapse, exposed x3, leaked).
HIGH_VALUE_TRIGGERS ==
  <<
    <<"t","r","u","m","p">>,
    <<"m","a","g","a">>,
    <<"b","i","d","e","n">>,
    <<"d","e","m","o","c","r","a","t","s"," ","d","e","s","t","r","o","y">>,
    <<"r","e","p","u","b","l","i","c","a","n","s"," ","d","e","s","t","r","o","y">>,
    <<"l","e","f","t","i","s","t">>,
    <<"r","i","g","h","t","-","w","i","n","g">>,
    <<"w","o","k","e">>,
    <<"a","n","t","i","-","w","o","k","e">>,
    <<"l","i","b","e","r","a","l"," ","t","e","a","r","s">>,
    <<"c","o","n","s","e","r","v","a","t","i","v","e">>,
    <<"r","a","d","i","c","a","l">>,
    <<"e","x","t","r","e","m","i","s","t">>,
    <<"s","o","c","i","a","l","i","s","t">>,
    <<"f","a","s","c","i","s","t">>,
    <<"s","h","u","t","d","o","w","n">>,
    <<"d","e","f","a","u","l","t">>,
    <<"d","e","b","t"," ","c","e","i","l","i","n","g">>,
    <<"g","o","v","e","r","n","m","e","n","t"," ","w","a","s","t","e">>,
    <<"t","a","x","p","a","y","e","r"," ","m","o","n","e","y">>,
    <<"b","i","g"," ","g","o","v","e","r","n","m","e","n","t">>,
    <<"d","e","e","p"," ","s","t","a","t","e">>,
    <<"c","o","r","r","u","p","t","i","o","n">>,
    <<"s","c","a","n","d","a","l">>,
    <<"c","o","v","e","r","-","u","p">>,
    <<"e","x","p","o","s","e","d">>,
    <<"c","a","u","g","h","t">>,
    <<"b","u","s","t","e","d">>,
    <<"i","n","v","e","s","t","i","g","a","t","i","o","n">>,
    <<"i","n","d","i","c","t","e","d">>,
    <<"a","r","r","e","s","t","e","d">>,
    <<"c","h","a","r","g","e","d">>,
    <<"g","u","i","l","t","y">>,
    <<"w","a","r","n","i","n","g">>,
    <<"a","l","e","r","t">>,
    <<"d","a","n","g","e","r">>,
    <<"t","h","r","e","a","t">>,
    <<"r","i","s","k">>,
    <<"u","n","s","a","f","e">>,
    <<"d","e","a","d","l","y">>,
    <<"k","i","l","l","e","d">>,
    <<"d","i","e","s">>,
    <<"d","e","a","t","h">>,
    <<"f","a","t","a","l">>,
    <<"v","i","c","t","i","m","s">>,
    <<"c","r","a","s","h">>,
    <<"c","o","l","l","a","p","s","e">>,
    <<"c","r","i","s","i","s">>,
    <<"e","m","e","r","g","e","n","c","y">>,
    <<"d","i","s","a","s","t","e","r">>,
    <<"s","c","a","m">>,
    <<"f","r","a","u","d">>,
    <<"r","i","p","o","f","f">>,
    <<"s","t","e","a","l","i","n","g">>,
    <<"t","h","e","f","t">>,
    <<"h","a","c","k","e","d">>,
    <<"s","k","y","r","o","c","k","e","t">>,
    <<"s","u","r","g","e">>,
    <<"s","p","i","k","e">>,
    <<"s","o","a","r">>,
    <<"e","x","p","l","o","d","e">>,
    <<"d","o","u","b","l","e">>,
    <<"t","r","i","p","l","e">>,
    <<"p","l","u","n","g","e">>,
    <<"c","r","a","s","h">>,
    <<"t","a","n","k">>,
    <<"c","o","l","l","a","p","s","e">>,
    <<"r","e","c","e","s","s","i","o","n">>,
    <<"d","e","p","r","e","s","s","i","o","n">>,
    <<"c","a","n","'","t"," ","a","f","f","o","r","d">>,
    <<"u","n","a","f","f","o","r","d","a","b","l","e">>,
    <<"p","r","i","c","e","d"," ","o","u","t">>,
    <<"s","t","r","u","g","g","l","i","n","g">>,
    <<"l","a","y","o","f","f","s">>,
    <<"f","i","r","e","d">>,
    <<"u","n","e","m","p","l","o","y","e","d">>,
    <<"j","o","b"," ","c","u","t","s">>,
    <<"h","i","r","i","n","g"," ","f","r","e","e","z","e">>,
    <<"o","u","t","r","a","g","e">>,
    <<"f","u","r","i","o","u","s">>,
    <<"a","n","g","r","y">>,
    <<"s","l","a","m","m","e","d">>,
    <<"b","l","a","s","t","e","d">>,
    <<"r","i","p","p","e","d">>,
    <<"d","e","s","t","r","o","y","e","d">>,
    <<"o","b","l","i","t","e","r","a","t","e","d">>,
    <<"h","u","m","i","l","i","a","t","e","d">>,
    <<"e","m","b","a","r","r","a","s","s","e","d">>,
    <<"c","a","u","g","h","t"," ","o","n"," ","c","a","m","e","r","a">>,
    <<"l","e","a","k","e","d">>,
    <<"s","e","c","r","e","t","l","y">>,
    <<"h","i","d","d","e","n">>,
    <<"y","o","u"," ","w","o","n","'","t"," ","b","e","l","i","e","v","e">>,
    <<"e","x","p","o","s","e","d">>,
    <<"t","h","e"," ","t","r","u","t","h"," ","a","b","o","u","t">>,
    <<"e","x","p","o","s","e","d">>,
    <<"l","i","e","d">>,
    <<"l","y","i","n","g">>,
    <<"l","i","e","s">>,
    <<"d","e","c","e","i","v","e","d">>,
    <<"b","e","t","r","a","y","e","d">>,
    <<"b","a","c","k","s","t","a","b","b","e","d">>,
    <<"b","r","e","a","k","i","n","g">>,
    <<"j","u","s","t"," ","i","n">>,
    <<"u","r","g","e","n","t">>,
    <<"d","e","v","e","l","o","p","i","n","g">>,
    <<"h","a","p","p","e","n","i","n","g"," ","n","o","w">>,
    <<"e","x","c","l","u","s","i","v","e">>,
    <<"f","i","r","s","t"," ","l","o","o","k">>,
    <<"i","n","s","i","d","e","r">>,
    <<"l","e","a","k","e","d">>
  >>

\* MEDIUM_VALUE_TRIGGERS, in list order.
MEDIUM_VALUE_TRIGGERS ==
  <<
    <<"r","a","t","e","s"," ","r","i","s","i","n","g">>,
    <<"p","r","e","m","i","u","m","s">>,
    <<"i","n","s","u","r","a","n","c","e"," ","c","o","s","t">>,
    <<"c","o","v","e","r","a","g","e"," ","d","e","n","i","e","d">>,
    <<"c","l","a","i","m"," ","r","e","j","e","c","t","e","d">>,
    <<"r","a","t","e"," ","h","i","k","e">>,
    <<"p","r","i","c","e"," ","i","n","c","r","e","a","s","e">>,
    <<"m","o","r","t","g","a","g","e"," ","r","a","t","e","s">>,
    <<"i","n","t","e","r","e","s","t"," ","r","a","t","e","s">>,
    <<"f","e","d"," ","r","a","i","s","e","s">>,
    <<"f","e","d"," ","c","u","t","s">>,
    <<"i","n","f","l","a","t","i","o","n">>,
    <<"c","o","s","t"," ","o","f"," ","l","i","v","i","n","g">>,
    <<"p","r","i","c","e","s">>,
    <<"h","i","d","d","e","n"," ","f","e","e","s">>,
    <<"f","i","n","e"," ","p","r","i","n","t">>,
    <<"g","o","t","c","h","a">>,
    <<"t","r","a","p">>,
    <<"t","r","i","c","k">>,
    <<"o","v","e","r","c","h","a","r","g","e","d">>,
    <<"r","i","p","p","e","d"," ","o","f","f">>,
    <<"f","i","g","h","t","i","n","g"," ","b","a","c","k">>,
    <<"r","e","c","a","l","l">>,
    <<"c","o","n","t","a","m","i","n","a","t","e","d">>,
    <<"d","a","n","g","e","r","o","u","s">>,
    <<"s","i","d","e"," ","e","f","f","e","c","t","s">>,
    <<"c","a","n","c","e","r">>,
    <<"d","i","s","e","a","s","e">>,
    <<"o","u","t","b","r","e","a","k">>,
    <<"v","i","r","u","s">>,
    <<"e","p","i","d","e","m","i","c">>,
    <<"h","u","r","r","i","c","a","n","e">>,
    <<"t","o","r","n","a","d","o">>,
    <<"f","l","o","o","d">>,
    <<"w","i","l","d","f","i","r","e">>,
    <<"e","a","r","t","h","q","u","a","k","e">>,
    <<"s","t","o","r","m">>,
    <<"d","e","v","a","s","t","a","t","i","o","n">>,
    <<"d","a","m","a","g","e">>,
    <<"d","e","s","t","r","o","y","e","d"," ","h","o","m","e","s">>,
    <<"c","r","i","m","e">>,
    <<"r","o","b","b","e","r","y">>,
    <<"a","s","s","a","u","l","t">>,
    <<"s","h","o","o","t","i","n","g">>,
    <<"m","u","r","d","e","r">>,
    <<"u","n","s","a","f","e">>,
    <<"p","r","o","t","e","c","t"," ","y","o","u","r","s","e","l","f">>,
    <<"h","o","m","e"," ","i","n","v","a","s","i","o","n">>
  >>

\* LOW_VALUE_TRIGGERS, in list order.
LOW_VALUE_TRIGGERS ==
  <<
    <<"h","o","w"," ","t","o">>,
    <<"t","i","p","s">>,
    <<"g","u","i","d","e">>,
    <<"t","u","t","o","r","i","a","l">>,
    <<"w","a","y","s"," ","t","o">>,
    <<"b","e","s","t">>,
    <<"t","o","p">>,
    <<"r","e","v","i","e","w">>,
    <<"c","o","m","p","a","r","i","s","o","n">>
  >>

\* BORING_INDICATORS, in list order.
BORING_INDICATORS ==
  <<
    <<"m","e","g","a","t","h","r","e","a","d">>,
    <<"w","e","e","k","l","y"," ","t","h","r","e","a","d">>,
    <<"d","a","i","l","y"," ","t","h","r","e","a","d">>,
    <<"d","i","s","c","u","s","s","i","o","n"," ","t","h","r","e","a","d">>,
    <<"q","u","e","s","t","i","o","n">>,
    <<"a","d","v","i","c","e">>,
    <<"o","p","i","n","i","o","n">>,
    <<"t","h","o","u","g","h","t","s">>,
    <<"h","e","l","p"," ","m","e">>,
    <<"s","h","o","u","l","d"," ","i">>,
    <<"i","s"," ","i","t"," ","w","o","r","t","h">>,
    <<"w","h","a","t"," ","d","o"," ","y","o","u"," ","t","h","i","n","k">>,
    <<"e","l","i","5">>,
    <<"a","m","a">>,
    <<"r","a","n","t">>,
    <<"v","e","n","t">>,
    <<"u","p","d","a","t","e">>,
    <<"c","o","m","p","r","e","h","e","n","s","i","v","e"," ","l","i","s","t">>,
    <<"r","e","s","o","u","r","c","e"," ","l","i","s","t">>,
    <<"g","u","i","d","e"," ","t","o">>,
    <<"b","e","g","i","n","n","e","r">>,
    <<"g","e","t","t","i","n","g"," ","s","t","a","r","t","e","d">>,
    <<"1","0","1">>,
    <<"b","a","s","i","c","s">>,
    <<"r","e","m","i","n","d","e","r">>,
    <<"p","s","a">>,
    <<"f","y","i">>,
    <<"t","i","l">>
  >>

\* CATEGORIES: the dict in insertion order, each id with its keyword list.
CATEGORIES ==
  <<
    [id |-> "politics_drama", keywords |-> <<
        <<"t","r","u","m","p">>,
        <<"b","i","d","e","n">>,
        <<"m","a","g","a">>,
        <<"d","e","m","o","c","r","a","t">>,
        <<"r","e","p","u","b","l","i","c","a","n">>,
        <<"c","o","n","g","r","e","s","s">>,
        <<"s","e","n","a","t","e">>,
        <<"s","h","u","t","d","o","w","n">>,
        <<"s","c","a","n","d","a","l">>,
        <<"i","n","v","e","s","t","i","g","a","t","i","o","n">>,
        <<"i","n","d","i","c","t","e","d">>,
        <<"w","o","k","e">>,
        <<"l","i","b","e","r","a","l">>,
        <<"c","o","n","s","e","r","v","a","t","i","v","e">>
      >>],
    [id |-> "money_fears", keywords |-> <<
        <<"r","e","c","e","s","s","i","o","n">>,
        <<"i","n","f","l","a","t","i","o","n">>,
        <<"l","a","y","o","f","f","s">>,
        <<"u","n","e","m","p","l","o","y","m","e","n","t">>,
        <<"c","r","a","s","h">>,
        <<"p","l","u","n","g","e">>,
        <<"c","a","n","'","t"," ","a","f","f","o","r","d">>,
        <<"s","k","y","r","o","c","k","e","t">>,
        <<"s","u","r","g","e">>,
        <<"s","p","i","k","e">>,
        <<"p","r","i","c","e","d"," ","o","u","t">>,
        <<"s","t","r","u","g","g","l","i","n","g">>
      >>],
    [id |-> "scams_warnings", keywords |-> <<
        <<"s","c","a","m">>,
        <<"f","r","a","u","d">>,
        <<"w","a","r","n","i","n","g">>,
        <<"a","l","e","r","t">>,
        <<"r","i","p","o","f","f">>,
        <<"h","a","c","k","e","d">>,
        <<"s","t","o","l","e","n">>,
        <<"e","x","p","o","s","e","d">>,
        <<"c","a","u","g","h","t">>,
        <<"b","u","s","t","e","d">>,
        <<"h","i","d","d","e","n"," ","f","e","e","s">>
      >>],
    [id |-> "rates_economy", keywords |-> <<
        <<"r","a","t","e">>,
        <<"i","n","t","e","r","e","s","t">>,
        <<"f","e","d">>,
        <<"m","o","r","t","g","a","g","e"," ","r","a","t","e">>,
        <<"i","n","s","u","r","a","n","c","e"," ","r","a","t","e">>,
        <<"p","r","e","m","i","u","m">>,
        <<"p","r","i","c","e"," ","h","i","k","e">>
      >>],
    [id |-> "insurance_news", keywords |-> <<
        <<"i","n","s","u","r","a","n","c","e">>,
        <<"c","o","v","e","r","a","g","e">>,
        <<"c","l","a","i","m"," ","d","e","n","i","e","d">>,
        <<"p","o","l","i","c","y">>,
        <<"p","r","e","m","i","u","m">>,
        <<"d","e","d","u","c","t","i","b","l","e">>
      >>],
    [id |-> "crime_safety", keywords |-> <<
        <<"c","r","i","m","e">>,
        <<"s","h","o","o","t","i","n","g">>,
        <<"m","u","r","d","e","r">>,
        <<"r","o","b","b","e","r","y">>,
        <<"a","s","s","a","u","l","t">>,
        <<"a","r","r","e","s","t">>,
        <<"k","i","l","l","e","d">>,
        <<"d","e","a","t","h">>
      >>],
    [id |-> "disasters", keywords |-> <<
        <<"h","u","r","r","i","c","a","n","e">>,
        <<"t","o","r","n","a","d","o">>,
        <<"f","l","o","o","d">>,
        <<"w","i","l","d","f","i","r","e">>,
        <<"e","a","r","t","h","q","u","a","k","e">>,
        <<"s","t","o","r","m">>,
        <<"d","e","v","a","s","t","a","t","i","o","n">>,
        <<"d","a","m","a","g","e">>
      >>],
    [id |-> "health_scares", keywords |-> <<
        <<"r","e","c","a","l","l">>,
        <<"c","a","n","c","e","r">>,
        <<"d","i","s","e","a","s","e">>,
        <<"o","u","t","b","r","e","a","k">>,
        <<"c","o","n","t","a","m","i","n","a","t","e","d">>,
        <<"d","a","n","g","e","r","o","u","s">>,
        <<"s","i","d","e"," ","e","f","f","e","c","t","s">>
      >>],
    [id |-> "outrage", keywords |-> <<
        <<"o","u","t","r","a","g","e">>,
        <<"f","u","r","i","o","u","s">>,
        <<"s","l","a","m","m","e","d">>,
        <<"b","l","a","s","t","e","d">>,
        <<"d","e","s","t","r","o","y","e","d">>,
        <<"l","i","e","d">>,
        <<"b","e","t","r","a","y","e","d">>,
        <<"c","a","u","g","h","t"," ","o","n"," ","c","a","m","e","r","a">>
      >>]
  >>

\* The marquee list of line 139: high-value triggers that are also reported
\* as emotional triggers.
MARQUEE_TRIGGERS ==
  { <<"t","r","u","m","p">>, <<"m","a","g","a">>, <<"b","i","d","e","n">>,
    <<"s","h","u","t","d","o","w","n">>, <<"s","c","a","n","d","a","l">>,
    <<"c","r","a","s","h">>, <<"s","c","a","m">>,
    <<"w","a","r","n","i","n","g">> }

\* The question openers of line 161.
QUESTION_PREFIXES ==
  { <<"s","h","o","u","l","d"," ","i">>, <<"i","s"," ","i","t">>,
    <<"w","h","a","t"," ","d","o">>, <<"h","o","w"," ","d","o"," ","i">>,
    <<"c","a","n"," ","i">>, <<"w","o","u","l","d"," ","i","t">> }

\* The first-person markers of line 165.
FIRST_PERSON_MARKERS ==
  { <<"m","y"," ">>, <<"i","'","m"," ">>, <<"i"," ","a","m"," ">>,
    <<"i"," ","h","a","v","e"," ">>, <<"i"," ","j","u","s","t"," ">>,
    <<"i"," ","n","e","e","d"," ">> }

\* The alternatives of the three numeric patterns of lines 170-174.
PERCENT_WORDS ==
  { <<"i","n","c","r","e","a","s","e">>, <<"r","i","s","e">>,
    <<"j","u","m","p">>, <<"s","u","r","g","e">>, <<"s","p","i","k","e">>,
    <<"h","i","k","e">> }

DOLLAR_WORDS ==
  { <<"l","o","s","t">>, <<"s","t","o","l","e","n">>, <<"s","c","a","m">>,
    <<"f","r","a","u","d">> }

CASUALTY_WORDS ==
  { <<"k","i","l","l","e","d">>, <<"d","e","a","d">>,
    <<"d","e","a","t","h","s">>, <<"v","i","c","t","i","m","s">>,
    <<"i","n","j","u","r","e","d">> }

\* high_engagement_cats of line 191.
HIGH_ENGAGEMENT_CATS ==
  {"politics_drama", "money_fears", "scams_warnings", "crime_safety", "outrage"}

\* ------------------------------------------------------------------------
\* Module state
\* ------------------------------------------------------------------------

\* The keyword lists and the category dict are module-level objects, built
\* once when the module is loaded and read by every call from then on.
VARIABLE tables

\* Lines 24-116: the objects as the module builds them.
MODULE_TABLES ==
  [HIGH_VALUE_TRIGGERS |-> HIGH_VALUE_TRIGGERS,
   MEDIUM_VALUE_TRIGGERS |-> MEDIUM_VALUE_TRIGGERS,
   LOW_VALUE_TRIGGERS |-> LOW_VALUE_TRIGGERS,
   BORING_INDICATORS |-> BORING_INDICATORS,
   CATEGORIES |-> CATEGORIES]

\* A scorer that consumes its list: HIGH_VALUE_TRIGGERS.pop(0) in the call.
TablesAfterQuickScorePopped(t) ==
  [t EXCEPT !.HIGH_VALUE_TRIGGERS = Tail(@)]

\* What one call of quick_score_article leaves in the module's objects:
\* lines 119-205 iterate over them and test membership, and assign only to
\* locals.
TablesAfterQuickScore(t) == t

\* The module's objects after n calls of quick_score_article.
RECURSIVE TablesAfterCalls(_, _)
TablesAfterCalls(t, n) ==
  IF n = 0 THEN t ELSE TablesAfterCalls(TablesAfterQuickScore(t), n - 1)

\* ------------------------------------------------------------------------
\* quick_score_article
\* ------------------------------------------------------------------------

\* f"{title} {summary}".lower()
ScoreText(title, summary) == lower(title \o <<" ">> \o summary)

\* The entries of a trigger list for which `trigger in text` holds, in list
\* order (an entry the list holds twice counts twice).
MatchingTriggers(triggers, text) ==
  SelectSeq(triggers, LAMBDA trigger : Contains(trigger, text))

\* The loop of lines 134-140 without the test of line 136: every match adds
\* 20 points.
RECURSIVE HighValueLoopUncapped(_, _, _)
HighValueLoopUncapped(matches, k, st) ==
  IF k > Len(matches) THEN st
  ELSE HighValueLoopUncapped(matches, k + 1,
         [high_value_count |-> st.high_value_count + 1,
          score |-> st.score + 20,
          emotional_triggers |->
            IF matches[k] \in MARQUEE_TRIGGERS
              THEN Append(st.emotional_triggers, matches[k])
              ELSE st.emotional_triggers])

\* The loop of lines 134-140 with the test of line 139 under the test of
\* line 136: a marquee match is recorded only while it adds points.
RECURSIVE HighValueLoopMarqueeCapped(_, _, _)
HighValueLoopMarqueeCapped(matches, k, st) ==
  IF k > Len(matches) THEN st
  ELSE HighValueLoopMarqueeCapped(matches, k + 1,
         [high_value_count |-> st.high_value_count + 1,
          score |-> IF st.high_value_count + 1 <= 3
                      THEN st.score + 20 ELSE st.score,
          emotional_triggers |->
            IF st.high_value_count + 1 <= 3 /\ matches[k] \in MARQUEE_TRIGGERS
              THEN Append(st.emotional_triggers, matches[k])
              ELSE st.emotional_triggers])

\* The loop of lines 134-140 over the matching entries from the k-th on: the
\* count of matches, the points of the first three, the marquee matches.
RECURSIVE HighValueLoop(_, _, _)
HighValueLoop(matches, k, st) ==
  IF k > Len(matches) THEN st
  ELSE HighValueLoop(matches, k + 1,
         [high_value_count |-> st.high_value_count + 1,
          score |-> IF st.high_value_count + 1 <= 3
                      THEN st.score + 20 ELSE st.score,
          emotional_triggers |->
            IF matches[k] \in MARQUEE_TRIGGERS
              THEN Append(st.emotional_triggers, matches[k])
              ELSE st.emotional_triggers])

\* Lines 133-140.
HighValueTier(text) ==
  HighValueLoop(MatchingTriggers(tables.HIGH_VALUE_TRIGGERS, text), 1,
    [high_value_count |-> 0, score |-> 0, emotional_triggers |-> <<>>])

\* The loop of lines 144-148 over the matching entries from the k-th on.
RECURSIVE MediumValueLoop(_, _, _)
MediumValueLoop(matches, k, st) ==
  IF k > Len(matches) THEN st
  ELSE MediumValueLoop(matches, k + 1,
         [medium_value_count |-> st.medium_value_count + 1,
          score |-> IF st.medium_value_count + 1 <= 3
                      THEN st.score + 12 ELSE st.score])

\* Lines 143-148 over a list that also holds the bare word "insurance".
MediumValueTierWithInsurance(text) ==
  MediumValueLoop(
    MatchingTriggers(
      Append(tables.MEDIUM_VALUE_TRIGGERS,
             <<"i","n","s","u","r","a","n","c","e">>), text), 1,
    [medium_value_count |-> 0, score |-> 0])

\* Lines 143-148.
MediumValueTier(text) ==
  MediumValueLoop(MatchingTriggers(tables.MEDIUM_VALUE_TRIGGERS, text), 1,
    [medium_value_count |-> 0, score |-> 0])

\* Lines 151-153: 3 points for every matching entry.
LowValueTier(text) == 3 * Len(MatchingTriggers(tables.LOW_VALUE_TRIGGERS, text))

\* Lines 156-158: 25 points off for every entry in the lower-cased title.
BoringPenalty(title_lower) ==
  25 * Len(MatchingTriggers(tables.BORING_INDICATORS, title_lower))

\* Lines 161-162 with the sign of line 162 turned: the 30 points are added.
QuestionPenaltyAdded(title_lower) ==
  IF \E p \in QUESTION_PREFIXES : StartsWith(title_lower, p) THEN -30 ELSE 0

\* Lines 161-162.
QuestionPenalty(title_lower) ==
  IF \E p \in QUESTION_PREFIXES : StartsWith(title_lower, p) THEN 30 ELSE 0

\* Lines 165-166.
FirstPersonPenalty(title_lower) ==
  IF \E x \in FIRST_PERSON_MARKERS : Contains(x, title_lower) THEN 20 ELSE 0

\* re.search(r'\d+%\s*(increase|rise|jump|surge|spike|hike)', text)
PercentPattern(text) ==
  \E p \in 2..Len(text) :
    /\ text[p] = "%"
    /\ text[p - 1] \in DIGITS
    /\ \E w \in PERCENT_WORDS : MatchAt(w, text, SkipSpace(text, p + 1))

\* re.search(r'\$[\d,]+\s*(lost|stolen|scam|fraud)', text)
DollarPattern(text) ==
  \E p \in 1..Len(text) :
    /\ text[p] = "$"
    /\ SkipDigitsCommas(text, p + 1) > p + 1
    /\ \E w \in DOLLAR_WORDS :
         MatchAt(w, text, SkipSpace(text, SkipDigitsCommas(text, p + 1)))

\* re.search(r'\d+\s*(killed|dead|deaths|victims|injured)', text)
CasualtyPattern(text) ==
  \E p \in 1..Len(text) :
    /\ text[p] \in DIGITS
    /\ \E w \in CASUALTY_WORDS : MatchAt(w, text, SkipSpace(text, p + 1))

\* Lines 170-175.
NumericBonus(text) ==
  (IF PercentPattern(text) THEN 15 ELSE 0)
  + (IF DollarPattern(text) THEN 15 ELSE 0)
  + (IF CasualtyPattern(text) THEN 20 ELSE 0)

\* re.search(r'\b[A-Z]{4,}\b', title): a run of four or more capitals with a
\* word boundary on each side.
AllCapsPattern(title) ==
  \E i \in 1..Len(title) : \E j \in i..Len(title) :
    /\ j - i + 1 >= 4
    /\ \A k \in i..j : IsUpper(title[k])
    /\ (i = 1 \/ ~IsWordChar(title[i - 1]))
    /\ (j = Len(title) \/ ~IsWordChar(title[j + 1]))

\* Lines 178-183, on the title as given (not lower-cased).
StyleBonus(title) ==
  (IF AllCapsPattern(title) THEN 10 ELSE 0)
  + (IF Contains(<<"!">>, title) THEN 5 ELSE 0)

\* all(kw in text for kw in keywords)
AllKeywords(keywords, text) ==
  \A k \in 1..Len(keywords) : Contains(keywords[k], text)

\* any(kw in text for kw in keywords)
AnyKeyword(keywords, text) ==
  \E k \in 1..Len(keywords) : Contains(keywords[k], text)

\* Lines 186-188 from dict position k on: the ids of the categories with a
\* keyword in the text, in the order of CATEGORIES.
RECURSIVE DetectLoop(_, _)
DetectLoop(text, k) ==
  IF k > Len(tables.CATEGORIES) THEN <<>>
  ELSE (IF AnyKeyword(tables.CATEGORIES[k].keywords, text)
          THEN <<tables.CATEGORIES[k].id>> ELSE <<>>)
       \o DetectLoop(text, k + 1)

DetectCategories(text) == DetectLoop(text, 1)

\* Lines 191-194: 10 points per detected high-engagement category.
RECURSIVE CategoryBonus(_)
CategoryBonus(detected_categories) ==
  IF detected_categories = <<>> THEN 0
  ELSE (IF Head(detected_categories) \in HIGH_ENGAGEMENT_CATS THEN 10 ELSE 0)
       + CategoryBonus(Tail(detected_categories))

\* The locals when the checks of lines 156-183 are made on the title and
\* the summary together instead of the title.
ScoreLocalsOnText(title, summary) ==
  LET text == ScoreText(title, summary)
      detected_categories == DetectCategories(text)
  IN  [high |-> HighValueTier(text),
       medium |-> MediumValueTier(text),
       low |-> LowValueTier(text),
       boring |-> BoringPenalty(text),
       question |-> QuestionPenalty(text),
       first_person |-> FirstPersonPenalty(text),
       numeric |-> NumericBonus(text),
       style |-> StyleBonus(title \o <<" ">> \o summary),
       detected_categories |-> detected_categories,
       category_bonus |-> CategoryBonus(detected_categories)]

\* The values quick_score_article holds when it reaches line 197: the final
\* loop states of the high and medium tiers, the points of the low tier, the
\* three penalties, the two bonuses, the detected categories and their bonus.
ScoreLocals(title, summary) ==
  LET text == ScoreText(title, summary)
      title_lower == lower(title)
      detected_categories == DetectCategories(text)
  IN  [high |-> HighValueTier(text),
       medium |-> MediumValueTier(text),
       low |-> LowValueTier(text),
       boring |-> BoringPenalty(title_lower),
       question |-> QuestionPenalty(title_lower),
       first_person |-> FirstPersonPenalty(title_lower),
       numeric |-> NumericBonus(text),
       style |-> StyleBonus(title),
       detected_categories |-> detected_categories,
       category_bonus |-> CategoryBonus(detected_categories)]

\* The local `score` on reaching line 197, before it is clamped.
RawScoreOf(locals) ==
  locals.high.score
  + locals.medium.score
  + locals.low
  - locals.boring
  - locals.question
  - locals.first_person
  + locals.numeric
  + locals.style
  + locals.category_bonus

RawScore(title, summary) == RawScoreOf(ScoreLocals(title, summary))

\* Line 197 without its upper limit: max(0, score).
ClampScoreNoCeiling(score) == Max(0, score)

\* Line 197 without its lower limit: min(100, score).
ClampScoreNoFloor(score) == Min(100, score)

\* Line 197: max(0, min(100, score))
ClampScore(score) == Max(0, Min(100, score))

\* Line 204 with the comparison off by one: score <= 20.
IsGenericInclusive(score) == score <= 20

\* Line 204: score < 20
IsGeneric(score) == score < 20

\* Lines 197-205: the dict returned from the locals.
ScoreReturn(locals) ==
  LET score == ClampScore(RawScoreOf(locals))
  IN  [score |-> score,
       categories |-> locals.detected_categories,
       emotional_triggers |-> locals.high.emotional_triggers,
       high_value_count |-> locals.high.high_value_count,
       is_generic |-> IsGeneric(score)]

quick_score_article(title, summary) ==
  ScoreReturn(ScoreLocals(title, summary))
\* ------------------------------------------------------------------------
\* Python values of the AI-delegated path
\* ------------------------------------------------------------------------

\* A JSON scalar as Python reads it.  Every value has the three fields, so
\* that values of different kinds can be compared.
PyInt(n) == [kind |-> "int", num |-> n, str |-> ""]

PyNone == [kind |-> "None", num |-> 0, str |-> ""]

PyStr(s) == [kind |-> "str", num |-> 0, str |-> s]

\* A Python object that is a dict (its items as a function of its keys) ...
PyDict(d) == [kind |-> "dict", dict |-> d]

\* ... and one that is a list: it has no .get.
PyList == [kind |-> "list", dict |-> <<>>]

\* dict.get(key, default)
Get(d, key, default) == IF key \in DOMAIN d THEN d[key] ELSE default

\* {**base, **new}: the keys of both, new's value where both have the key.
DictMerge(base, new) ==
  [k \in (DOMAIN base) \cup (DOMAIN new) |->
     IF k \in DOMAIN new THEN new[k] ELSE base[k]]

\* The dict quick_score_article returns, lines 199-205, as a Python object.
QuickScoreData(title, summary) ==
  LET q == quick_score_article(title, summary)
  IN  PyDict([score |-> PyInt(q.score),
              categories |-> q.categories,
              emotional_triggers |-> q.emotional_triggers,
              high_value_count |-> PyInt(q.high_value_count),
              is_generic |-> q.is_generic])

\* ------------------------------------------------------------------------
\* ai_score_article
\* ------------------------------------------------------------------------

\* The text of an AI answer is a sequence of tokens: a ``` fence, the word
\* json, white space, prose, or the text of one JSON value.
Tok(t) == [tok |-> t, value |-> PyList]

JsonTok(v) == [tok |-> "json", value |-> v]

FENCE == Tok("fence")

LANG == Tok("lang")

SPACE == Tok("space")

PROSE == Tok("prose")

\* str.strip(): leading and trailing white space removed.
RECURSIVE LStrip(_)
LStrip(text) ==
  IF text # <<>> /\ Head(text).tok = "space" THEN LStrip(Tail(text)) ELSE text

RECURSIVE RStrip(_)
RStrip(text) ==
  IF text # <<>> /\ text[Len(text)].tok = "space"
    THEN RStrip(SubSeq(text, 1, Len(text) - 1))
    ELSE text

strip(text) == RStrip(LStrip(text))

\* The tokens of text before its first fence (all of it if it has none).
RECURSIVE UpToFence(_)
UpToFence(text) ==
  IF text = <<>> \/ Head(text).tok = "fence" THEN <<>>
  ELSE <<Head(text)>> \o UpToFence(Tail(text))

\* result.split("```")[1] for a text that starts with a fence.
SplitFenceSecond(text) == UpToFence(Tail(text))

\* Lines 257-261: the text handed to json.loads.
FenceStripped(result) ==
  LET stripped == strip(result)
  IN  IF stripped # <<>> /\ Head(stripped).tok = "fence"
        THEN LET inner == SplitFenceSecond(stripped)
             IN  IF inner # <<>> /\ Head(inner).tok = "lang"
                   THEN Tail(inner) ELSE inner
        ELSE stripped

\* json.loads: one JSON value with white space around it, or an error.
json_loads(text) ==
  LET body == strip(text)
  IN  IF Len(body) = 1 /\ body[1].tok = "json"
        THEN [ok |-> TRUE, value |-> body[1].value]
        ELSE [ok |-> FALSE, value |-> PyList]

\* Lines 237-254 without the test of line 213 and the client tests of lines
\* 237 and 245: the request goes to the configured provider.
SelectedProviderUnchecked(provider, openai, anthropic) ==
  IF provider = "anthropic" THEN "anthropic" ELSE "openai"

\* Lines 237-254 with line 245 testing the provider too: the OpenAI client
\* is called only when ai_provider is "openai".
SelectedProviderNoFallback(provider, openai, anthropic) ==
  IF provider = "anthropic" /\ anthropic THEN "anthropic"
  ELSE IF provider = "openai" /\ openai THEN "openai"
  ELSE "none"

\* Lines 213 and 237-254: the client the request goes to, "none" when
\* ai_score_article returns the quick score without a request.
SelectedProvider(provider, openai, anthropic) ==
  IF ~(openai \/ anthropic) THEN "none"
  ELSE IF provider = "anthropic" /\ anthropic THEN "anthropic"
  ELSE IF openai THEN "openai"
  ELSE "none"

\* Lines 264-266 returning an empty score in place of the quick score.
AIFallbackEmptyScore(title, summary) ==
  PyDict([score |-> PyInt(0), categories |-> <<>>,
          emotional_triggers |-> <<>>])

\* Lines 264-266: what the except branch returns.
AIFallback(title, summary) == QuickScoreData(title, summary)

\* Lines 236-266 once the awaited call has ended with outcome r: the call
\* raised, or it returned the text r.text.
AIScoreResult(title, summary, r) ==
  IF r.raises THEN AIFallback(title, summary)
  ELSE LET parsed == json_loads(FenceStripped(r.text))
       IN  IF parsed.ok THEN parsed.value ELSE AIFallback(title, summary)

\* ------------------------------------------------------------------------
\* batch_score_articles
\* ------------------------------------------------------------------------

\* Lines 285-292: the item appended for an article and its score data.
ScoredItem(article, score_data) ==
  DictMerge(article,
    [relevance_score |-> Get(score_data, "score", PyInt(0)),
     categories |-> Get(score_data, "categories", <<>>),
     emotional_triggers |-> Get(score_data, "emotional_triggers", <<>>),
     hook_potential |-> Get(score_data, "hook_potential", ""),
     copy_angle |-> Get(score_data, "copy_angle", "")])

\* Lines 277-283 and 285-292 for one article on the heuristic path.
QuickScoredItem(article) ==
  ScoredItem(article,
    QuickScoreData(Get(article, "title", <<>>),
                   Get(article, "summary", <<>>)).dict)

\* The key of line 295.
SortKey(item) == Get(item, "relevance_score", PyInt(0))

\* a < b on sort keys that Python can compare.  The model holds one string
\* score only, so two strings are equal.
PyLess(a, b) == a.kind = "int" /\ b.kind = "int" /\ a.num < b.num

\* Whether list.sort raises TypeError: it compares as soon as the list has
\* two items, None is not ordered, and ints and strings are not comparable.
SortRaises(items) ==
  /\ Len(items) >= 2
  /\ \/ \E i \in 1..Len(items) : SortKey(items[i]).kind = "None"
     \/ \E i, j \in 1..Len(items) :
          SortKey(items[i]).kind # SortKey(items[j]).kind

\* item put into a list sorted by descending key in front of the items with
\* an equal key: a sort that is not stable.
RECURSIVE InsertBeforeEqual(_, _)
InsertBeforeEqual(item, sorted) ==
  IF sorted = <<>> THEN <<item>>
  ELSE IF ~PyLess(SortKey(item), SortKey(Head(sorted)))
         THEN <<item>> \o sorted
         ELSE <<Head(sorted)>> \o InsertBeforeEqual(item, Tail(sorted))

\* item put into a list sorted by descending key, behind every item whose
\* key is not smaller.
RECURSIVE InsertDescending(_, _)
InsertDescending(item, sorted) ==
  IF sorted = <<>> THEN <<item>>
  ELSE IF PyLess(SortKey(Head(sorted)), SortKey(item))
         THEN <<item>> \o sorted
         ELSE <<Head(sorted)>> \o InsertDescending(item, Tail(sorted))

\* item put into a list sorted by ascending key, behind every item whose
\* key is not greater.
RECURSIVE InsertAscending(_, _)
InsertAscending(item, sorted) ==
  IF sorted = <<>> THEN <<item>>
  ELSE IF PyLess(SortKey(item), SortKey(Head(sorted)))
         THEN <<item>> \o sorted
         ELSE <<Head(sorted)>> \o InsertAscending(item, Tail(sorted))

\* Line 295 without reverse=True: a stable ascending sort.
RECURSIVE SortAscending(_)
SortAscending(items) ==
  IF items = <<>> THEN <<>>
  ELSE InsertAscending(items[Len(items)],
                       SortAscending(SubSeq(items, 1, Len(items) - 1)))

\* Line 295: scored.sort(key=..., reverse=True), a stable sort.
RECURSIVE SortDescending(_)
SortDescending(items) ==
  IF items = <<>> THEN <<>>
  ELSE InsertDescending(items[Len(items)],
                        SortDescending(SubSeq(items, 1, Len(items) - 1)))

\* ------------------------------------------------------------------------
\* group_articles_by_category
\* ------------------------------------------------------------------------

\* The keys of groups, lines 305-317, in insertion order (the labels are
\* written without their emoji).
GROUP_KEYS ==
  <<"Hot Takes", "Political Drama", "Money Fears", "Scams & Warnings",
    "Outrage", "Crime & Safety", "Rates & Economy", "Insurance News",
    "Disasters", "Health Scares", "Other">>

\* category_map, lines 319-329, in insertion order.
CATEGORY_MAP ==
  << [category |-> "politics_drama", label |-> "Political Drama"],
     [category |-> "money_fears", label |-> "Money Fears"],
     [category |-> "scams_warnings", label |-> "Scams & Warnings"],
     [category |-> "outrage", label |-> "Outrage"],
     [category |-> "crime_safety", label |-> "Crime & Safety"],
     [category |-> "rates_economy", label |-> "Rates & Economy"],
     [category |-> "insurance_news", label |-> "Insurance News"],
     [category |-> "disasters", label |-> "Disasters"],
     [category |-> "health_scares", label |-> "Health Scares"] >>

\* priority_order, lines 352-357.
PRIORITY_ORDER ==
  <<"Hot Takes", "Political Drama", "Money Fears", "Scams & Warnings",
    "Outrage", "Crime & Safety", "Rates & Economy", "Insurance News",
    "Disasters", "Health Scares", "Other">>

\* cat in category_map
InCategoryMap(cat) == \E k \in 1..Len(CATEGORY_MAP) : CATEGORY_MAP[k].category = cat

\* category_map[cat]
CategoryLabel(cat) ==
  CATEGORY_MAP[CHOOSE k \in 1..Len(CATEGORY_MAP) : CATEGORY_MAP[k].category = cat].label

\* Lines 341-347 without the test of line 346: an item none of whose
\* categories is a key of category_map goes to the first bucket of the map.
RECURSIVE FirstMappedLabelNoOther(_)
FirstMappedLabelNoOther(categories) ==
  IF categories = <<>> THEN CATEGORY_MAP[1].label
  ELSE IF InCategoryMap(Head(categories))
         THEN CategoryLabel(Head(categories))
         ELSE FirstMappedLabelNoOther(Tail(categories))

\* Lines 341-347: the label of the first of the item's categories that is a
\* key of category_map, Other if none is.
RECURSIVE FirstMappedLabel(_)
FirstMappedLabel(categories) ==
  IF categories = <<>> THEN "Other"
  ELSE IF InCategoryMap(Head(categories))
         THEN CategoryLabel(Head(categories))
         ELSE FirstMappedLabel(Tail(categories))

\* The threshold of line 336.
HOT_SCORE == 70

\* Lines 332-349 with the two tests in the other order: the categories are
\* looked at before the score.
PlaceLabelCategoriesFirst(article) ==
  LET score == Get(article, "relevance_score", PyInt(0))
      categories == Get(article, "categories", <<>>)
  IN  IF categories # <<>> THEN FirstMappedLabel(categories)
      ELSE IF score.num >= HOT_SCORE THEN "Hot Takes"
      ELSE "Other"

\* Lines 332-349: the key of groups the article is appended to.
PlaceLabel(article) ==
  LET score == Get(article, "relevance_score", PyInt(0))
      categories == Get(article, "categories", <<>>)
  IN  IF score.num >= HOT_SCORE THEN "Hot Takes"
      ELSE IF categories # <<>> THEN FirstMappedLabel(categories)
      ELSE "Other"

\* Whether `score >= 70` raises TypeError for some article: None and
\* strings are not comparable with an int.
GroupRaises(items) ==
  \E i \in 1..Len(items) :
    Get(items[i], "relevance_score", PyInt(0)).kind # "int"

\* The loop of lines 331-349 without its two else branches: an article that
\* goes to Other is appended nowhere.
RECURSIVE GroupLoopNoOther(_, _)
GroupLoopNoOther(items, n) ==
  IF n = 0 THEN [key \in {GROUP_KEYS[k] : k \in 1..Len(GROUP_KEYS)} |-> <<>>]
  ELSE LET groups == GroupLoopNoOther(items, n - 1)
           label == PlaceLabel(items[n])
       IN  IF label = "Other" THEN groups
           ELSE [groups EXCEPT ![label] = Append(@, items[n])]

\* The loop of lines 331-349 with insert(0, article) in place of append.
RECURSIVE GroupLoopPrepend(_, _)
GroupLoopPrepend(items, n) ==
  IF n = 0 THEN [key \in {GROUP_KEYS[k] : k \in 1..Len(GROUP_KEYS)} |-> <<>>]
  ELSE LET groups == GroupLoopPrepend(items, n - 1)
           label == PlaceLabel(items[n])
       IN  [groups EXCEPT ![label] = <<items[n]>> \o @]

\* groups after the loop of lines 331-349 over the first n articles.
RECURSIVE GroupLoop(_, _)
GroupLoop(items, n) ==
  IF n = 0 THEN [key \in {GROUP_KEYS[k] : k \in 1..Len(GROUP_KEYS)} |-> <<>>]
  ELSE LET groups == GroupLoop(items, n - 1)
           label == PlaceLabel(items[n])
       IN  [groups EXCEPT ![label] = Append(@, items[n])]

\* Lines 359-362 without the test of line 361: empty groups are kept.
RECURSIVE ResultLoopKeepEmpty(_, _)
ResultLoopKeepEmpty(groups, k) ==
  IF k > Len(PRIORITY_ORDER) THEN <<>>
  ELSE << [label |-> PRIORITY_ORDER[k], items |-> groups[PRIORITY_ORDER[k]]] >>
       \o ResultLoopKeepEmpty(groups, k + 1)

\* Lines 359-362 from position k of priority_order on: the non-empty groups
\* as (label, items) pairs in the order they are inserted into result.
RECURSIVE ResultLoop(_, _)
ResultLoop(groups, k) ==
  IF k > Len(PRIORITY_ORDER) THEN <<>>
  ELSE LET key == PRIORITY_ORDER[k]
       IN  (IF key \in DOMAIN groups /\ groups[key] # <<>>
              THEN << [label |-> key, items |-> groups[key]] >>
              ELSE <<>>)
           \o ResultLoop(groups, k + 1)

group_articles_by_category(items) ==
  ResultLoop(GroupLoop(items, Len(items)), 1)

\* ------------------------------------------------------------------------
\* Inputs of the model
\* ------------------------------------------------------------------------

\* "BREAKING: Trump Slams Congress Over Shutdown Scandal!"
T_BREAKING ==
  <<"B","R","E","A","K","I","N","G",":"," ","T","r","u","m","p"," ",
    "S","l","a","m","s"," ","C","o","n","g","r","e","s","s"," ",
    "O","v","e","r"," ","S","h","u","t","d","o","w","n"," ",
    "S","c","a","n","d","a","l","!">>

\* "Should I switch my auto insurance?"
T_SHOULD_I ==
  <<"S","h","o","u","l","d"," ","I"," ","s","w","i","t","c","h"," ",
    "m","y"," ","a","u","t","o"," ","i","n","s","u","r","a","n","c","e","?">>

\* "My thoughts on the weekly megathread"
T_MEGATHREAD ==
  <<"M","y"," ","t","h","o","u","g","h","t","s"," ","o","n"," ",
    "t","h","e"," ","w","e","e","k","l","y"," ",
    "m","e","g","a","t","h","r","e","a","d">>

\* "exposed"
T_EXPOSED == <<"e","x","p","o","s","e","d">>

\* "crime rate"
T_CRIME_RATE == <<"c","r","i","m","e"," ","r","a","t","e">>

\* "3 killed"
T_KILLED == <<"3"," ","k","i","l","l","e","d">>

\* "$5,000 stolen!"
T_STOLEN == <<"$","5",",","0","0","0"," ","s","t","o","l","e","n","!">>

\* "premiums up 20% hike"
T_PREMIUMS ==
  <<"p","r","e","m","i","u","m","s"," ","u","p"," ","2","0","%"," ",
    "h","i","k","e">>

\* "top tips"
T_TOP_TIPS == <<"t","o","p"," ","t","i","p","s">>

\* "scam warning"
T_SCAM_WARNING == <<"s","c","a","m"," ","w","a","r","n","i","n","g">>

\* The phrases a title is made of.
TITLE_PHRASES ==
  { T_BREAKING, T_SHOULD_I, T_MEGATHREAD, T_EXPOSED, T_CRIME_RATE,
    T_KILLED, T_STOLEN, T_PREMIUMS, T_TOP_TIPS, T_SCAM_WARNING }

\* " ".join(parts)
RECURSIVE JoinParts(_)
JoinParts(parts) ==
  IF parts = <<>> THEN <<>>
  ELSE IF Len(parts) = 1 THEN parts[1]
  ELSE parts[1] \o <<" ">> \o JoinParts(Tail(parts))

\* The phrases that follow the first phrase of a title: one with a
\* high-value trigger, one with boring indicators, one for the dollar
\* pattern, one for the medium tier and the percent pattern, one with two
\* marquee triggers.
TRAILING_PHRASES ==
  { T_EXPOSED, T_MEGATHREAD, T_STOLEN, T_PREMIUMS, T_SCAM_WARNING }

\* The titles scored in SpecScore: the empty title, and a phrase followed by
\* trailing phrases, up to MaxTitleParts phrases in all.
TITLES ==
  { <<>> } \cup
  { JoinParts(<<first>> \o rest) :
      first \in TITLE_PHRASES,
      rest \in UNION { [1..n -> TRAILING_PHRASES] :
                         n \in 0..(MaxTitleParts - 1) } }

\* "the weekly megathread is my LOUD rant!"
S_LOUD_RANT ==
  <<"t","h","e"," ","w","e","e","k","l","y"," ",
    "m","e","g","a","t","h","r","e","a","d"," ","i","s"," ","m","y"," ",
    "L","O","U","D"," ","r","a","n","t","!">>

\* "6 dead"
S_DEAD == <<"6"," ","d","e","a","d">>

\* The summaries scored in SpecScore, the empty summary included.
SUMMARIES == { <<>>, S_LOUD_RANT, S_DEAD }

\* The articles a caller hands to batch_score_articles, less the id it
\* attaches: a headline scored 70, one scored 22 whose categories are
\* detected as rates_economy, crime_safety, and one scored 6 with no
\* category and no summary key, to which the caller has attached a url and
\* a field of its own called categories.
ARTICLE_POOL ==
  { [title |-> T_EXPOSED, summary |-> <<>>],
    [title |-> T_CRIME_RATE, summary |-> <<>>],
    [title |-> T_TOP_TIPS, url |-> "https://example.com/top-tips",
     categories |-> <<"newsletter">>] }

\* The lists of n articles; the caller's id is the position in the list.
ArticleLists(n) ==
  { [i \in 1..n |-> DictMerge(choice[i], [id |-> i])] :
      choice \in [1..n -> ARTICLE_POOL] }

\* "fear"
E_FEAR == <<"f","e","a","r">>

\* JSON objects an AI answer can hold.
OBJ_HOT ==
  PyDict([score |-> PyInt(85),
          categories |-> <<"finance", "fear">>,
          emotional_triggers |-> <<E_FEAR>>,
          hook_potential |-> "hook",
          copy_angle |-> "angle"])

OBJ_MID ==
  PyDict([score |-> PyInt(40),
          categories |-> <<"outrage", "politics_drama">>,
          emotional_triggers |-> <<>>,
          hook_potential |-> "hook",
          copy_angle |-> "angle"])

OBJ_NO_SCORE == PyDict([categories |-> <<"finance">>])

OBJ_NULL_SCORE == PyDict([score |-> PyNone, categories |-> <<>>])

OBJ_TEXT_SCORE == PyDict([score |-> PyStr("high"), categories |-> <<>>])

OBJ_OVER_SCORE == PyDict([score |-> PyInt(150), categories |-> <<>>])

\* How the awaited AI call can end: it raises (transport error, timeout,
\* error status), or it returns a text.
AIRaises == [raises |-> TRUE, text |-> <<>>]

AIReturns(text) == [raises |-> FALSE, text |-> text]

AI_OUTCOMES ==
  { AIRaises,
    AIReturns(<<PROSE>>),
    AIReturns(<<PROSE, SPACE, FENCE, LANG, SPACE, JsonTok(OBJ_HOT), SPACE, FENCE>>),
    AIReturns(<<FENCE, LANG, SPACE, JsonTok(OBJ_HOT), SPACE, FENCE, SPACE>>),
    AIReturns(<<FENCE, SPACE, JsonTok(OBJ_MID), SPACE, FENCE>>),
    AIReturns(<<JsonTok(PyList)>>),
    AIReturns(<<JsonTok(OBJ_NO_SCORE)>>),
    AIReturns(<<JsonTok(OBJ_NULL_SCORE)>>),
    AIReturns(<<JsonTok(OBJ_TEXT_SCORE)>>),
    AIReturns(<<SPACE, JsonTok(OBJ_OVER_SCORE)>>) }

\* Whether the outcome is a failed call or a text json.loads rejects.
AIFailed(r) == r.raises \/ ~json_loads(FenceStripped(r.text)).ok

\* ------------------------------------------------------------------------
\* State
\* ------------------------------------------------------------------------

VARIABLES
  title,            \* the title handed to quick_score_article
  summary,          \* the summary handed to quick_score_article
  score_results,    \* what the calls of quick_score_article returned, in order
  score_locals,     \* the locals of each of these calls on reaching line 197
  openai_client,    \* whether the module holds an OpenAI client (line 16)
  anthropic_client, \* whether the module holds an Anthropic client (line 20)
  ai_provider,      \* settings.ai_provider
  articles,         \* the list handed to batch_score_articles
  use_ai,           \* the flag handed to batch_score_articles
  pc,               \* where the batch call and its caller are
  scored,           \* the local list scored of batch_score_articles
  requests,         \* the AI requests issued, in order: provider and item
  ai_log,           \* how the AI call for each resolved item ended
  returned,         \* the list batch_score_articles returned
  grouped,          \* the mapping group_articles_by_category returned
  calls             \* the locals of each of the concurrent batch calls

vars ==
  <<tables, title, summary, score_results, score_locals, openai_client,
    anthropic_client, ai_provider, articles, use_ai, pc, scored, requests,
    ai_log, returned, grouped, calls>>

scorer_vars == <<title, summary, score_results, score_locals>>

config_vars == <<openai_client, anthropic_client, ai_provider>>

batch_vars ==
  <<articles, use_ai, pc, scored, requests, ai_log, returned, grouped>>

\* ------------------------------------------------------------------------
\* Spec: batch_score_articles, then group_articles_by_category on its result
\* ------------------------------------------------------------------------

Init ==
  /\ tables = MODULE_TABLES
  /\ title = <<>>
  /\ summary = <<>>
  /\ score_results = <<>>
  /\ score_locals = <<>>
  /\ openai_client \in BOOLEAN
  /\ anthropic_client \in BOOLEAN
  /\ ai_provider \in {"openai", "anthropic"}
  /\ articles \in UNION { ArticleLists(n) : n \in 0..MaxArticles }
  /\ use_ai \in BOOLEAN
  /\ pc = "idle"
  /\ scored = <<>>
  /\ requests = <<>>
  /\ ai_log = <<>>
  /\ returned = <<>>
  /\ grouped = <<>>
  /\ calls = <<>>

Provider == SelectedProvider(ai_provider, openai_client, anthropic_client)

\* The request ai_score_article sends for the item at position k of the
\* list (line 238 or 246).
AIRequest(k) == [provider |-> Provider, item |-> k]

\* Lines 294-297 on the complete list: the sort raises, or the sorted list
\* is returned.
Finish(items) ==
  IF SortRaises(items)
    THEN /\ pc' = "batch_raised"
         /\ returned' = returned
    ELSE /\ pc' = "returned"
         /\ returned' = SortDescending(items)

\* The items of lines 276-292 for every article, on the heuristic path.
QuickScoredList(list) == [i \in 1..Len(list) |-> QuickScoredItem(list[i])]

\* A loop that writes the score fields into the caller's dict: article[k] =
\* value in place of the new dict of lines 285-292.
InputAfterItemInPlace(list, k, item) == [list EXCEPT ![k] = item]

\* The caller's list once the item for its k-th article is appended: lines
\* 285-292 build a new dict from **article and append it to the new list of
\* line 274; neither the argument nor its dicts are assigned to.
InputAfterItem(list, k, item) == list

\* The caller's list once items are appended for its articles from the k-th
\* on.
RECURSIVE InputAfterItems(_, _, _)
InputAfterItems(list, items, k) ==
  IF k > Len(items) THEN list
  ELSE InputAfterItems(InputAfterItem(list, k, items[k]), items, k + 1)

\* batch_score_articles runs without suspending: use_ai is false, or
\* ai_score_article returns the quick score for want of a client, or the
\* list is empty.
BatchCallDirect ==
  /\ pc = "idle"
  /\ ~use_ai \/ Provider = "none" \/ articles = <<>>
  /\ scored' = QuickScoredList(articles)
  /\ ai_log' = [i \in 1..Len(articles) |-> "no_request"]
  /\ Finish(scored')
  /\ tables' = TablesAfterCalls(tables, Len(articles))
  /\ articles' = InputAfterItems(articles, scored', 1)
  /\ UNCHANGED <<use_ai, requests, grouped>>
  /\ UNCHANGED scorer_vars
  /\ UNCHANGED config_vars
  /\ UNCHANGED calls

\* The requests of a call that starts the AI calls for all its articles at
\* once (asyncio.gather) instead of awaiting them in turn.
RequestsAtFirstAwaitAll(list) == [i \in 1..Len(list) |-> AIRequest(i)]

\* The requests issued when the call reaches its first await: line 281
\* awaits ai_score_article for the first article of the loop of line 276.
RequestsAtFirstAwait(list) == <<AIRequest(1)>>

\* batch_score_articles with use_ai runs up to the await of the first
\* item's AI request.
BatchCallAwait ==
  /\ pc = "idle"
  /\ use_ai
  /\ Provider # "none"
  /\ articles # <<>>
  /\ pc' = "await"
  /\ requests' = RequestsAtFirstAwait(articles)
  /\ UNCHANGED <<tables, articles, use_ai, scored, ai_log, returned, grouped>>
  /\ UNCHANGED scorer_vars
  /\ UNCHANGED config_vars
  /\ UNCHANGED calls

\* A loop that asks again for an item whose call failed.
NextRequestItemRetry(resolved, r) ==
  IF AIFailed(r) THEN resolved ELSE resolved + 1

\* The position of the article the next request is for, once `resolved`
\* items are appended and the last call ended with outcome r: the loop of
\* line 276 goes on to the next article however the call ended.
NextRequestItem(resolved, r) == resolved + 1

\* The awaited AI call ends with outcome r; the batch call appends the item
\* and runs on to the next await, or to the sort and the return.
AIResponse(r) ==
  /\ pc = "await"
  /\ LET article == articles[Len(scored) + 1]
         score_data == AIScoreResult(Get(article, "title", <<>>),
                                     Get(article, "summary", <<>>), r)
     IN  IF score_data.kind # "dict"
           THEN \* score_data.get raises AttributeError
                /\ pc' = "batch_raised"
                /\ UNCHANGED <<tables, articles, scored, ai_log, requests,
                               returned>>
           ELSE /\ scored' = Append(scored, ScoredItem(article, score_data.dict))
                /\ articles' = InputAfterItem(articles, Len(scored'),
                                              scored'[Len(scored')])
                /\ ai_log' = Append(ai_log,
                               IF AIFailed(r) THEN "failed" ELSE "parsed")
                /\ IF Len(scored') = Len(articles)
                     THEN /\ Finish(scored')
                          /\ UNCHANGED requests
                     ELSE /\ requests' =
                               Append(requests,
                                 AIRequest(NextRequestItem(Len(scored'), r)))
                          /\ UNCHANGED <<pc, returned>>
                /\ tables' = TablesAfterCalls(tables,
                               IF AIFailed(r) THEN 1 ELSE 0)
  /\ UNCHANGED <<use_ai, grouped>>
  /\ UNCHANGED scorer_vars
  /\ UNCHANGED config_vars
  /\ UNCHANGED calls

\* The AI service never answers the pending request.  Lines 237-252 await
\* the client's call with no timeout argument and no asyncio.wait_for around
\* it, so the batch call stays suspended at the await.
AINoAnswer ==
  /\ pc = "await"
  /\ pc' = "no_answer"
  /\ UNCHANGED <<tables, articles, use_ai, scored, requests, ai_log, returned,
                 grouped>>
  /\ UNCHANGED scorer_vars
  /\ UNCHANGED config_vars
  /\ UNCHANGED calls

\* The caller hands the returned list to group_articles_by_category.
GroupCall ==
  /\ pc = "returned"
  /\ IF GroupRaises(returned)
       THEN /\ pc' = "group_raised"
            /\ UNCHANGED grouped
       ELSE /\ pc' = "grouped"
            /\ grouped' = group_articles_by_category(returned)
  /\ UNCHANGED <<tables, articles, use_ai, scored, requests, ai_log, returned>>
  /\ UNCHANGED scorer_vars
  /\ UNCHANGED config_vars
  /\ UNCHANGED calls

Next ==
  \/ BatchCallDirect
  \/ BatchCallAwait
  \/ \E r \in AI_OUTCOMES : AIResponse(r)
  \/ AINoAnswer
  \/ GroupCall

Spec == Init /\ [][Next]_vars

\* ------------------------------------------------------------------------
\* SpecConcurrent: batch calls with use_ai=True on one event loop, each
\* suspended at its awaits while the others run
\* ------------------------------------------------------------------------

\* The callers whose batch calls run concurrently.
CALLERS == {"first", "second"}

\* The articles of the concurrent calls.
CONCURRENT_POOL ==
  { [title |-> T_EXPOSED, summary |-> <<>>],
    [title |-> T_TOP_TIPS] }

\* The lists of n of these articles, with the position as id.
ConcurrentLists(n) ==
  { [i \in 1..n |-> DictMerge(choice[i], [id |-> i])] :
      choice \in [1..n -> CONCURRENT_POOL] }

\* How the AI calls of the concurrent calls end: the call raises, or the
\* answer is a fenced JSON object.
CONCURRENT_OUTCOMES ==
  { AIRaises,
    AIReturns(<<FENCE, LANG, SPACE, JsonTok(OBJ_MID), SPACE, FENCE>>) }

\* The locals of a batch call on entry.
NewCall(list) ==
  [articles |-> list, pc |-> "idle", scored |-> <<>>, outcomes |-> <<>>,
   returned |-> <<>>]

InitConcurrent ==
  /\ tables = MODULE_TABLES
  /\ title = <<>>
  /\ summary = <<>>
  /\ score_results = <<>>
  /\ score_locals = <<>>
  /\ openai_client = FALSE
  /\ anthropic_client = TRUE
  /\ ai_provider = "anthropic"
  /\ articles = <<>>
  /\ use_ai = TRUE
  /\ pc = "idle"
  /\ scored = <<>>
  /\ requests = <<>>
  /\ ai_log = <<>>
  /\ returned = <<>>
  /\ grouped = <<>>
  /\ calls \in [CALLERS ->
                  { NewCall(list) :
                      list \in UNION { ConcurrentLists(n) : n \in 1..MaxArticles } }]

\* One list that every call appends to, such as a module-level list or a
\* mutable default argument.
AppendScoredShared(all_calls, c, item) ==
  [d \in DOMAIN all_calls |->
     [all_calls[d] EXCEPT !.scored = Append(@, item)]]

\* Line 285 in call c: scored is the list created at line 274 of this call.
AppendScored(all_calls, c, item) ==
  [all_calls EXCEPT ![c].scored = Append(@, item)]

\* Call c runs from its entry to the await of its first request.
ConcurrentStart(c) ==
  /\ calls[c].pc = "idle"
  /\ Provider # "none"
  /\ calls' = [calls EXCEPT ![c].pc = "await"]
  /\ UNCHANGED <<tables, articles, use_ai, pc, scored, requests, ai_log,
                 returned, grouped>>
  /\ UNCHANGED scorer_vars
  /\ UNCHANGED config_vars

\* The awaited AI call of call c ends with outcome r: call c appends the
\* item and runs on to its next await, or sorts its list and returns it.
ConcurrentResponse(c, r) ==
  /\ calls[c].pc = "await"
  /\ Len(calls[c].scored) < Len(calls[c].articles)
  /\ LET article == calls[c].articles[Len(calls[c].scored) + 1]
         score_data == AIScoreResult(Get(article, "title", <<>>),
                                     Get(article, "summary", <<>>), r)
         appended == AppendScored(calls, c,
                                  ScoredItem(article, score_data.dict))
         mine == [appended[c] EXCEPT !.outcomes = Append(@, r)]
     IN  calls' =
           [appended EXCEPT ![c] =
              IF Len(mine.scored) >= Len(mine.articles)
                THEN [mine EXCEPT !.pc = "returned",
                                  !.returned = SortDescending(mine.scored)]
                ELSE mine]
  /\ tables' = TablesAfterCalls(tables, IF AIFailed(r) THEN 1 ELSE 0)
  /\ UNCHANGED <<articles, use_ai, pc, scored, requests, ai_log, returned,
                 grouped>>
  /\ UNCHANGED scorer_vars
  /\ UNCHANGED config_vars

NextConcurrent ==
  \/ \E c \in CALLERS : ConcurrentStart(c)
  \/ \E c \in CALLERS : \E r \in CONCURRENT_OUTCOMES : ConcurrentResponse(c, r)

SpecConcurrent == InitConcurrent /\ [][NextConcurrent]_vars

\* ------------------------------------------------------------------------
\* SpecScore: quick_score_article on the titles and summaries of the model,
\* called again and again with a batch call on another article in between
\* ------------------------------------------------------------------------

\* The list of a batch call made between two calls of quick_score_article.
OTHER_ARTICLES == <<[title |-> T_CRIME_RATE, summary |-> S_DEAD, id |-> 1]>>

InitScore ==
  /\ tables = MODULE_TABLES
  /\ title \in TITLES
  /\ summary \in SUMMARIES
  /\ score_results = <<>>
  /\ score_locals = <<>>
  /\ openai_client = FALSE
  /\ anthropic_client = FALSE
  /\ ai_provider = "anthropic"
  /\ articles = OTHER_ARTICLES
  /\ use_ai = FALSE
  /\ pc = "idle"
  /\ scored = <<>>
  /\ requests = <<>>
  /\ ai_log = <<>>
  /\ returned = <<>>
  /\ grouped = <<>>
  /\ calls = <<>>

\* One call of quick_score_article(title, summary).
CallQuickScore ==
  /\ Len(score_results) < MaxScoreCalls
  /\ LET locals == ScoreLocals(title, summary)
     IN  /\ score_locals' = Append(score_locals, locals)
         /\ score_results' = Append(score_results, ScoreReturn(locals))
  /\ tables' = TablesAfterQuickScore(tables)
  /\ UNCHANGED <<title, summary>>
  /\ UNCHANGED config_vars
  /\ UNCHANGED calls
  /\ UNCHANGED batch_vars

\* A batch call on another article, made after a call of
\* quick_score_article and before a later one.
BatchCallBetween ==
  /\ score_results # <<>>
  /\ Len(score_results) < MaxScoreCalls
  /\ BatchCallDirect

NextScore ==
  \/ CallQuickScore
  \/ BatchCallBetween

SpecScore == InitScore /\ [][NextScore]_vars

\* ------------------------------------------------------------------------
\* Properties
\* ------------------------------------------------------------------------

\* C1: every score quick_score_article returns is an integer from 0 to 100,
\* whichever tiers, penalties and bonuses fire.
C1_ScoreWithinBounds ==
  \A k \in 1..Len(score_results) : score_results[k].score \in 0..100

\* A call whose score before clamping exceeds 100 has returned 100.
C1_Witness ==
  /\ score_results # <<>>
  /\ RawScore(title, summary) > 100
  /\ score_results[1].score = 100

\* C2: in every result of quick_score_article, is_generic is true exactly
\* when the returned score is below 20.
C2_GenericIffBelowTwenty ==
  \A k \in 1..Len(score_results) :
    score_results[k].is_generic <=> (score_results[k].score < 20)

\* A call has returned the score 20, which is not generic.
C2_Witness ==
  /\ score_results # <<>>
  /\ score_results[1].score = 20
  /\ ~score_results[1].is_generic

\* C3: batch_score_articles with use_ai=True never raises to its caller,
\* however the AI call ends.
C3_AIBatchNeverRaises == use_ai => pc # "batch_raised"

\* Whether a scored item carries the quick score of the k-th input article.
CarriesQuickScore(item, k) ==
  LET quick == quick_score_article(Get(articles[k], "title", <<>>),
                                   Get(articles[k], "summary", <<>>))
  IN  /\ item["relevance_score"] = PyInt(quick.score)
      /\ item["categories"] = quick.categories
      /\ item["emotional_triggers"] = quick.emotional_triggers

\* C4: with use_ai=True, an item whose AI call raised or answered a text that
\* cannot be parsed carries the relevance_score, categories and
\* emotional_triggers quick_score_article returns for its title and summary,
\* in the list being built and in the list returned.
C4_FailedCallCarriesQuickScore ==
  IF pc = "await"
    THEN \A k \in 1..Len(scored) :
           ai_log[k] = "failed" => CarriesQuickScore(scored[k], k)
    ELSE \A j \in 1..Len(returned) :
           (use_ai /\ ai_log[returned[j]["id"]] = "failed")
             => CarriesQuickScore(returned[j], returned[j]["id"])

\* The batch has returned a list in which an item whose AI call failed
\* carries the quick score 70 of its headline and its detected category.
C4_Witness ==
  /\ pc = "returned"
  /\ use_ai
  /\ \E j \in 1..Len(returned) :
       /\ ai_log[returned[j]["id"]] = "failed"
       /\ returned[j]["relevance_score"] = PyInt(70)
       /\ returned[j]["categories"] = <<"scams_warnings">>

\* The places (bucket, position) of the returned mapping that hold item.
PlacesOf(item) ==
  { <<b, j>> \in (1..Len(grouped)) \X (1..MaxArticles + 1) :
      j <= Len(grouped[b].items) /\ grouped[b].items[j] = item }

\* The number of items in the buckets from the b-th on.
RECURSIVE BucketItemCount(_)
BucketItemCount(b) ==
  IF b > Len(grouped) THEN 0
  ELSE Len(grouped[b].items) + BucketItemCount(b + 1)

\* C5: group_articles_by_category places every input item in exactly one
\* bucket, once, and the buckets together hold as many items as the input.
C5_EveryItemInOneBucket ==
  pc = "grouped" =>
    /\ \A i \in 1..Len(returned) : Cardinality(PlacesOf(returned[i])) = 1
    /\ BucketItemCount(1) = Len(returned)

\* Two items have been grouped into two buckets, one of them Other.
C5_Witness ==
  /\ pc = "grouped"
  /\ Len(returned) = 2
  /\ Len(grouped) = 2
  /\ grouped[2].label = "Other"

\* The bucket labels in the priority order the mapping is to iterate in.
C6_LABEL_ORDER ==
  <<"Hot Takes", "Political Drama", "Money Fears", "Scams & Warnings",
    "Outrage", "Crime & Safety", "Rates & Economy", "Insurance News",
    "Disasters", "Health Scares", "Other">>

\* The position of a label in that order.
C6_Rank(label) ==
  CHOOSE k \in 1..Len(C6_LABEL_ORDER) : C6_LABEL_ORDER[k] = label

\* C6: the mapping group_articles_by_category returns holds exactly the
\* labels that received an item, none of them with an empty list, and its
\* keys iterate in the fixed priority order.
C6_NonEmptyBucketsInPriorityOrder ==
  pc = "grouped" =>
    /\ \A b \in 1..Len(grouped) :
         /\ grouped[b].items # <<>>
         /\ \E k \in 1..Len(C6_LABEL_ORDER) : C6_LABEL_ORDER[k] = grouped[b].label
    /\ \A b \in 1..(Len(grouped) - 1) :
         C6_Rank(grouped[b].label) < C6_Rank(grouped[b + 1].label)
    /\ \A i \in 1..Len(returned) :
         \E b \in 1..Len(grouped) : grouped[b].label = PlaceLabel(returned[i])

\* The mapping holds Hot Takes and then Rates & Economy, and nothing else.
C6_Witness ==
  /\ pc = "grouped"
  /\ Len(grouped) = 2
  /\ grouped[1].label = "Hot Takes"
  /\ grouped[2].label = "Rates & Economy"

\* The label of the first entry of the category table (in table order) that
\* is among the given categories.
C7_FirstTableLabel(categories) ==
  LET hits == { k \in 1..Len(CATEGORY_MAP) :
                  \E c \in 1..Len(categories) :
                    categories[c] = CATEGORY_MAP[k].category }
  IN  CATEGORY_MAP[CHOOSE k \in hits : \A h \in hits : k <= h].label

\* C7: an item with score below 70 and categories is placed in the bucket of
\* the first entry of the category table that is among its categories,
\* whatever the order of its own categories.
C7_PlacedByTableOrder ==
  pc = "grouped" =>
    \A b \in 1..Len(grouped) : \A j \in 1..Len(grouped[b].items) :
      LET item == grouped[b].items[j]
      IN  (/\ item["relevance_score"].num < 70
           /\ \E c \in 1..Len(item["categories"]) :
                InCategoryMap(item["categories"][c]))
            => grouped[b].label = C7_FirstTableLabel(item["categories"])

\* C8: an item is in the Hot Takes bucket exactly when its relevance_score
\* is at least 70, whatever its categories.
C8_HotIffAtLeastSeventy ==
  pc = "grouped" =>
    \A b \in 1..Len(grouped) : \A j \in 1..Len(grouped[b].items) :
      (grouped[b].label = "Hot Takes")
        <=> (grouped[b].items[j]["relevance_score"].num >= 70)

\* An item with a mapped category and score 70 is in Hot Takes, beside a
\* bucket that holds an item below 70.
C8_Witness ==
  /\ pc = "grouped"
  /\ Len(grouped) = 2
  /\ grouped[1].label = "Hot Takes"
  /\ grouped[1].items[1]["categories"] = <<"scams_warnings">>
  /\ grouped[1].items[1]["relevance_score"].num = 70
  /\ grouped[2].items[1]["relevance_score"].num < 70

\* The keys the item of the k-th article must carry over from it.
CarriesArticle(item, k) ==
  /\ Get(item, "title", <<>>) = Get(articles[k], "title", <<>>)
  /\ ("summary" \in DOMAIN item) = ("summary" \in DOMAIN articles[k])

\* C9: the list batch_score_articles returns holds one scored item per
\* input item and is ordered by relevance_score, non-increasing.
C9_ReturnedIsSortedPermutation ==
  pc \in {"returned", "grouped", "group_raised"} =>
    /\ Len(returned) = Len(articles)
    /\ \A k \in 1..Len(articles) :
         \E j \in 1..Len(returned) :
           /\ returned[j]["id"] = k
           /\ CarriesArticle(returned[j], k)
           /\ \A j2 \in 1..Len(returned) : returned[j2]["id"] = k => j2 = j
    /\ \A j \in 1..(Len(returned) - 1) :
         \/ returned[j]["relevance_score"] = returned[j + 1]["relevance_score"]
         \/ /\ returned[j]["relevance_score"].kind = "int"
            /\ returned[j + 1]["relevance_score"].kind = "int"
            /\ returned[j]["relevance_score"].num
                 > returned[j + 1]["relevance_score"].num

\* The second input item has been returned first, with the higher score.
C9_Witness ==
  /\ pc = "returned"
  /\ Len(returned) = 2
  /\ returned[1]["id"] = 2
  /\ returned[1]["relevance_score"].num > returned[2]["relevance_score"].num

\* C10: items of the returned list with equal relevance_score are in the
\* order they had in the input list.
C10_TiesKeepInputOrder ==
  pc \in {"returned", "grouped", "group_raised"} =>
    \A i, j \in 1..Len(returned) :
      (i < j /\ returned[i]["relevance_score"] = returned[j]["relevance_score"])
        => returned[i]["id"] < returned[j]["id"]

\* Two items with different titles and the same score have been returned in
\* input order.
C10_Witness ==
  /\ pc = "returned"
  /\ Len(returned) = 2
  /\ returned[1]["relevance_score"] = returned[2]["relevance_score"]
  /\ returned[1]["title"] # returned[2]["title"]
  /\ returned[1]["id"] = 1

\* Whether the item holds, for every key of the given set, the value the
\* k-th input article holds under it.
KeepsFields(item, k, keys) ==
  \A key \in keys : key \in DOMAIN item /\ item[key] = articles[k][key]

\* C11: every input article has an item in the returned list that holds,
\* under every key of the article (one called categories, emotional_triggers,
\* relevance_score, hook_potential or copy_angle included), the value the
\* caller gave it.
C11_EveryFieldKept ==
  pc \in {"returned", "grouped", "group_raised"} =>
    \A k \in 1..Len(articles) :
      \E j \in 1..Len(returned) :
        /\ Get(returned[j], "id", 0) = k
        /\ KeepsFields(returned[j], k, DOMAIN articles[k])

\* C12: all calls of quick_score_article on the same title and summary have
\* returned the same score, categories, emotional_triggers, high_value_count
\* and is_generic, whether or not a batch call on another article ran
\* between them.
C12_SameInputSameResult ==
  \A i, j \in 1..Len(score_results) : score_results[i] = score_results[j]

\* A headline with high-value matches and a category has been scored, a
\* batch call on another article has returned, and the headline has been
\* scored again.
C12_Witness ==
  /\ Len(score_results) = MaxScoreCalls
  /\ Len(score_results) >= 2
  /\ pc = "returned"
  /\ returned # <<>>
  /\ score_results[1].high_value_count >= 1
  /\ score_results[1].categories # <<>>

\* The number of entries of HIGH_VALUE_TRIGGERS that occur in the text
\* scored.
HighTierMatches ==
  LET text == ScoreText(title, summary)
      triggers == tables.HIGH_VALUE_TRIGGERS
  IN  Cardinality({ i \in 1..Len(triggers) : Contains(triggers[i], text) })

\* C13: in every call, the points of the high-value tier are 20 times the
\* smaller of 3 and the number of high-tier matches, and high_value_count is
\* the number of matches.
C13_HighTierCappedAtThree ==
  score_locals # <<>> =>
    LET matches == HighTierMatches
    IN  \A k \in 1..Len(score_locals) :
          /\ score_locals[k].high.score = 20 * Min(3, matches)
          /\ score_locals[k].high.high_value_count = matches
          /\ score_results[k].high_value_count = matches

\* A text with four or more high-tier matches has been scored: the tier
\* gave 60 points and high_value_count is above 3.
C13_Witness ==
  /\ score_results # <<>>
  /\ score_locals[1].high.score = 60
  /\ score_results[1].high_value_count >= 4
  /\ HighTierMatches >= 4

\* "should i"
SHOULD_I == <<"s","h","o","u","l","d"," ","i">>

\* The points of the three keyword tiers in the locals of a call.
TierPoints(locals) == locals.high.score + locals.medium.score + locals.low

\* The numeric, stylistic and category bonuses in the locals of a call.
BonusPoints(locals) == locals.numeric + locals.style + locals.category_bonus

\* C14, amended: for a title that begins with "should i" in any case, the
\* score before clamping is at most the points of the three tiers plus the
\* numeric, stylistic and category bonuses minus 30, and the returned score
\* is at least 0.
C14_QuestionCostsThirty ==
  StartsWith(lower(title), SHOULD_I) =>
    \A k \in 1..Len(score_locals) :
      /\ RawScoreOf(score_locals[k])
           <= TierPoints(score_locals[k]) + BonusPoints(score_locals[k]) - 30
      /\ score_results[k].score >= 0

\* A "Should I" title has been scored whose bonuses outweigh its other
\* penalties: the score before clamping is above the tiers' points minus 30.
C14_Witness ==
  /\ score_results # <<>>
  /\ StartsWith(lower(title), SHOULD_I)
  /\ BonusPoints(score_locals[1]) > 0
  /\ RawScoreOf(score_locals[1]) > TierPoints(score_locals[1]) - 30
  /\ score_results[1].score >= 0

\* C14 as stated: for a title that begins with "should i" in any case, the
\* score before clamping is at most the points of the high, medium and low
\* tiers minus 30, and the returned score is at least 0.
C14_AtMostTiersMinusThirty ==
  StartsWith(lower(title), SHOULD_I) =>
    \A k \in 1..Len(score_locals) :
      /\ RawScoreOf(score_locals[k]) <= TierPoints(score_locals[k]) - 30
      /\ score_results[k].score >= 0

\* Whether x is an element of the sequence s.
InSeq(x, s) == \E i \in 1..Len(s) : s[i] = x

\* C15, amended: scoring "BREAKING: Trump Slams Congress Over Shutdown
\* Scandal!" with an empty summary yields categories that include
\* politics_drama and do not include outrage, and is_generic false.
C15_BreakingIsPoliticsDrama ==
  (title = T_BREAKING /\ summary = <<>>) =>
    \A k \in 1..Len(score_results) :
      /\ InSeq("politics_drama", score_results[k].categories)
      /\ ~InSeq("outrage", score_results[k].categories)
      /\ ~score_results[k].is_generic

\* The headline has been scored with an empty summary: its only category is
\* politics_drama and its score is 85.
C15_Witness ==
  /\ title = T_BREAKING
  /\ summary = <<>>
  /\ score_results # <<>>
  /\ score_results[1].categories = <<"politics_drama">>
  /\ score_results[1].score = 85

\* C15 as stated: the headline with an empty summary yields categories that
\* include both politics_drama and outrage, and is_generic false.
C15_BreakingIsPoliticsAndOutrage ==
  (title = T_BREAKING /\ summary = <<>>) =>
    \A k \in 1..Len(score_results) :
      /\ InSeq("politics_drama", score_results[k].categories)
      /\ InSeq("outrage", score_results[k].categories)
      /\ ~score_results[k].is_generic

\* The penalties of lines 155-166 in the locals of a call.
PenaltyPoints(locals) == locals.boring + locals.question + locals.first_person

\* C16: a call whose penalties total at least the points of the tiers and
\* the bonuses returns the score 0 and is_generic true; so do the calls on
\* "Should I switch my auto insurance?" and on "My thoughts on the weekly
\* megathread" with an empty summary.
C16_OutweighedScoresZero ==
  \A k \in 1..Len(score_results) :
    (\/ PenaltyPoints(score_locals[k])
          >= TierPoints(score_locals[k]) + BonusPoints(score_locals[k])
     \/ (title \in {T_SHOULD_I, T_MEGATHREAD} /\ summary = <<>>))
      => (score_results[k].score = 0 /\ score_results[k].is_generic)

\* A title with keyword or bonus points and penalties above them has been
\* scored 0 and generic.
C16_Witness ==
  /\ score_results # <<>>
  /\ TierPoints(score_locals[1]) + BonusPoints(score_locals[1]) > 0
  /\ PenaltyPoints(score_locals[1])
       > TierPoints(score_locals[1]) + BonusPoints(score_locals[1])
  /\ score_results[1].score = 0
  /\ score_results[1].is_generic

\* What batch_score_articles returns for a list with use_ai=False: every
\* item with its quick score, sorted.
HeuristicOutput(list) == SortDescending(QuickScoredList(list))

\* C17: with no AI client configured, a batch call with use_ai=True issues
\* no request, never waits, and returns for its list what a call with
\* use_ai=False returns for it.
C17_NoClientSameAsHeuristic ==
  /\ (use_ai /\ ~openai_client /\ ~anthropic_client) =>
       /\ requests = <<>>
       /\ pc \notin {"await", "no_answer", "batch_raised"}
       /\ pc \in {"returned", "grouped", "group_raised"} =>
            returned = HeuristicOutput(articles)
  /\ (~use_ai /\ pc \in {"returned", "grouped", "group_raised"}) =>
       returned = HeuristicOutput(articles)

\* With use_ai=True and no client, the batch has returned two items without
\* a request.
C17_Witness ==
  /\ use_ai
  /\ ~openai_client
  /\ ~anthropic_client
  /\ pc = "returned"
  /\ Len(returned) = 2
  /\ returned[1]["relevance_score"].num > returned[2]["relevance_score"].num
  /\ requests = <<>>

RequestsFor(k) == { i \in 1..Len(requests) : requests[i].item = k }

\* C19: during a batch call with use_ai=True, no article has more than one
\* AI request, and an article whose call failed or answered a text that
\* cannot be parsed has had exactly one.
C19_OneRequestPerItem ==
  use_ai =>
    /\ \A k \in 1..Len(articles) : Cardinality(RequestsFor(k)) <= 1
    /\ \A i \in 1..Len(requests) : requests[i].item \in 1..Len(articles)
    /\ \A k \in 1..Len(ai_log) :
         ai_log[k] = "failed" => Cardinality(RequestsFor(k)) = 1

\* The call for the first of two articles has failed, both items are
\* resolved, and two requests were issued in all.
C19_Witness ==
  /\ use_ai
  /\ Len(articles) = 2
  /\ Len(ai_log) = 2
  /\ ai_log[1] = "failed"
  /\ Len(requests) = 2
  /\ pc = "returned"

\* The items a batch call run alone appends for the first Len(outcomes)
\* articles of its list, when the AI calls end with these outcomes.
SoloScored(list, outcomes) ==
  [i \in 1..Len(outcomes) |->
     ScoredItem(list[i],
                AIScoreResult(Get(list[i], "title", <<>>),
                              Get(list[i], "summary", <<>>),
                              outcomes[i]).dict)]

\* C20: however concurrent batch calls interleave at their awaits, the list
\* each call is building holds the items the call would have appended alone
\* with the same AI outcomes, the list it returns is the sorted list of
\* these items for all its articles, and the module's tables are as loaded.
C20_ConcurrentCallsAsAlone ==
  /\ tables = MODULE_TABLES
  /\ \A c \in DOMAIN calls :
       /\ calls[c].scored = SoloScored(calls[c].articles, calls[c].outcomes)
       /\ calls[c].pc = "returned" =>
            /\ Len(calls[c].outcomes) = Len(calls[c].articles)
            /\ calls[c].returned =
                 SortDescending(SoloScored(calls[c].articles,
                                           calls[c].outcomes))

\* One call has returned its two items, the second of them first, while the
\* other call, started before, waits for its second answer.
C20_Witness ==
  \E c, d \in DOMAIN calls :
    /\ c # d
    /\ calls[c].pc = "returned"
    /\ Len(calls[c].returned) = 2
    /\ calls[c].returned[1]["id"] = 2
    /\ calls[d].pc = "await"
    /\ Len(calls[d].scored) = 1
    /\ calls[d].outcomes # SubSeq(calls[c].outcomes, 1, 1)

\* The distinct keywords of HIGH_VALUE_TRIGGERS that occur in the text
\* scored.
DistinctHighKeywords ==
  LET text == ScoreText(title, summary)
      triggers == tables.HIGH_VALUE_TRIGGERS
  IN  { triggers[i] : i \in { j \in 1..Len(triggers) :
                                Contains(triggers[j], text) } }

\* C21: in every call, high_value_count is the number of distinct high-tier
\* keywords that occur in the lower-cased text; the title "exposed" with an
\* empty summary has high_value_count 1 and 20 high-tier points.
C21_CountsDistinctKeywords ==
  score_results # <<>> =>
    LET distinct == Cardinality(DistinctHighKeywords)
    IN  \A k \in 1..Len(score_results) :
          /\ score_results[k].high_value_count = distinct
          /\ (title = T_EXPOSED /\ summary = <<>>) =>
               /\ score_results[k].high_value_count = 1
               /\ score_locals[k].high.score = 20

\* C22: every relevance_score in a list batch_score_articles has returned is
\* an integer from 0 to 100, whether quick_score_article or the AI answer
\* gave it.
C22_RelevanceScoreWithinBounds ==
  pc \in {"returned", "grouped", "group_raised"} =>
    \A j \in 1..Len(returned) :
      /\ returned[j]["relevance_score"].kind = "int"
      /\ returned[j]["relevance_score"].num \in 0..100

\* The total of the checks made on the title in the locals of a call: the
\* all-caps and exclamation-mark bonuses less the boring-content,
\* question-opener and first-person penalties.
TitleOnlyPoints(locals) ==
  locals.style - locals.boring - locals.question - locals.first_person

\* C23: a call on a title with a summary applies the same boring, question
\* and first-person penalties and the same stylistic bonuses as a call on
\* the title with an empty summary.
C23_TitleChecksIgnoreSummary ==
  (score_locals # <<>> /\ summary # <<>>) =>
    LET alone == ScoreLocals(title, <<>>)
    IN  \A k \in 1..Len(score_locals) :
          /\ score_locals[k].boring = alone.boring
          /\ score_locals[k].question = alone.question
          /\ score_locals[k].first_person = alone.first_person
          /\ score_locals[k].style = alone.style
          /\ TitleOnlyPoints(score_locals[k]) = TitleOnlyPoints(alone)

\* A title has been scored with the summary "the weekly megathread is my
\* LOUD rant!", which holds a boring phrase, a first-person marker, an
\* upper-case word and "!": none of the title checks has fired.
C23_Witness ==
  /\ score_locals # <<>>
  /\ summary = S_LOUD_RANT
  /\ title # <<>>
  /\ score_results[1].score > 0
  /\ TitleOnlyPoints(score_locals[1]) = 0
  /\ score_locals[1].style = 0

\* The entries of HIGH_VALUE_TRIGGERS, in list order, that occur in the text
\* scored and are marquee triggers.
MarqueeMatches ==
  LET text == ScoreText(title, summary)
  IN  SelectSeq(tables.HIGH_VALUE_TRIGGERS,
                LAMBDA t : t \in MARQUEE_TRIGGERS /\ Contains(t, text))

\* C24: in every call, emotional_triggers is the sequence of the entries of
\* HIGH_VALUE_TRIGGERS, in list order, that occur in the text and are
\* marquee triggers, those matched fourth or later included.
C24_TriggersAreMarqueeMatches ==
  score_results # <<>> =>
    LET marquee == MarqueeMatches
    IN  \A k \in 1..Len(score_results) :
          score_results[k].emotional_triggers = marquee

\* A text has been scored whose three points-earning matches are marquee
\* triggers and that has two marquee matches more: all five are returned.
C24_Witness ==
  /\ score_results # <<>>
  /\ score_results[1].high_value_count > 3
  /\ score_locals[1].high.score = 60
  /\ Len(score_results[1].emotional_triggers) > 3
  /\ score_results[1].emotional_triggers = MarqueeMatches

\* C25, amended: the bare word "insurance" is not a medium-tier match; for
\* the title "Should I switch my auto insurance?" with an empty summary the
\* medium-value tier has no match and contributes 0 points.
C25_InsuranceAloneIsNoMatch ==
  (title = T_SHOULD_I /\ summary = <<>>) =>
    \A k \in 1..Len(score_locals) :
      /\ score_locals[k].medium.medium_value_count = 0
      /\ score_locals[k].medium.score = 0

\* The title has been scored with an empty summary: no tier gave a point,
\* insurance_news was detected, and the score is 0.
C25_Witness ==
  /\ title = T_SHOULD_I
  /\ summary = <<>>
  /\ score_locals # <<>>
  /\ TierPoints(score_locals[1]) = 0
  /\ score_results[1].categories = <<"insurance_news">>
  /\ score_results[1].score = 0

\* C25 as stated: for the title "Should I switch my auto insurance?" with an
\* empty summary the medium-value tier contributes 12 points before
\* penalties.
C25_InsuranceGivesTwelve ==
  (title = T_SHOULD_I /\ summary = <<>>) =>
    \A k \in 1..Len(score_locals) : score_locals[k].medium.score = 12

\* The position in the list handed to group_articles_by_category of the
\* item with the given id.
InputPosition(id) ==
  CHOOSE p \in 1..Len(returned) : returned[p]["id"] = id

\* C26: in every bucket group_articles_by_category has returned, the items
\* are in the order they had in its input list, and, the input being the
\* list batch_score_articles returned, in order of non-increasing
\* relevance_score.
C26_BucketsKeepInputOrder ==
  pc = "grouped" =>
    \A b \in 1..Len(grouped) :
      \A i, j \in 1..Len(grouped[b].items) :
        i < j =>
          /\ InputPosition(grouped[b].items[i]["id"])
               < InputPosition(grouped[b].items[j]["id"])
          /\ grouped[b].items[i]["relevance_score"].num
               >= grouped[b].items[j]["relevance_score"].num

\* A bucket holds two items with different scores, the higher first, and
\* the higher one was second in the list the batch call was given.
C26_Witness ==
  /\ pc = "grouped"
  /\ \E b \in 1..Len(grouped) :
       /\ Len(grouped[b].items) = 2
       /\ grouped[b].items[1]["id"] = 2
       /\ grouped[b].items[1]["relevance_score"].num
            > grouped[b].items[2]["relevance_score"].num

\* The labels of the buckets that hold the item.
BucketsOf(item) ==
  { grouped[b].label :
      b \in { c \in 1..Len(grouped) : InSeq(item, grouped[c].items) } }

\* Whether the item is scored below 70 and has categories, none of them a
\* key of category_map.
HasOnlyUnmappedCategories(item) ==
  /\ item["relevance_score"].num < HOT_SCORE
  /\ item["categories"] # <<>>
  /\ \A i \in 1..Len(item["categories"]) :
       ~InCategoryMap(item["categories"][i])

\* C27: an item scored below 70 whose categories are non-empty and hold no
\* key of category_map is in the Other bucket and in no other, as is an item
\* scored below 70 with no categories.
C27_UnmappedCategoriesGoToOther ==
  pc = "grouped" =>
    \A i \in 1..Len(returned) :
      (\/ HasOnlyUnmappedCategories(returned[i])
       \/ (/\ returned[i]["relevance_score"].num < HOT_SCORE
           /\ returned[i]["categories"] = <<>>))
        => BucketsOf(returned[i]) = {"Other"}

\* An item the AI gave the category "finance" and no score, and an item
\* with no categories, have both been placed in Other.
C27_Witness ==
  /\ pc = "grouped"
  /\ \E i, j \in 1..Len(returned) :
       /\ HasOnlyUnmappedCategories(returned[i])
       /\ returned[i]["categories"] = <<"finance">>
       /\ returned[j]["categories"] = <<>>
       /\ BucketsOf(returned[i]) = {"Other"}
       /\ BucketsOf(returned[j]) = {"Other"}

\* C28: no step of a batch call or of the grouping that follows it changes
\* the module's keyword and category tables, the list the caller gave to
\* batch_score_articles or a dict in it, or the list given to
\* group_articles_by_category.
C28_CallsLeaveInputsAlone ==
  [][/\ tables' = tables
     /\ articles' = articles
     /\ pc = "returned" => returned' = returned]_vars

\* The batch has returned a new list with the caller's second article
\* first, the list was grouped, and the caller's list is in its order, its
\* dicts without a score field, and the tables as the module built them.
C28_Witness ==
  /\ pc = "grouped"
  /\ Len(articles) = 2
  /\ returned[1]["id"] = 2
  /\ "relevance_score" \in DOMAIN returned[1]
  /\ articles[1]["id"] = 1
  /\ articles[2]["id"] = 2
  /\ "relevance_score" \notin DOMAIN articles[1]
  /\ "relevance_score" \notin DOMAIN articles[2]
  /\ tables = MODULE_TABLES

\* C29: in a batch call with use_ai=True the i-th request issued is for the
\* i-th article, a request is issued only when every article before its own
\* is resolved, at an await exactly one request is unanswered, and a list is
\* returned only when every article is resolved.
C29_RequestsOneAtATimeInOrder ==
  use_ai =>
    /\ \A i \in 1..Len(requests) :
         /\ requests[i].item = i
         /\ Len(scored) >= i - 1
    /\ pc = "await" => Len(requests) = Len(scored) + 1
    /\ pc \in {"returned", "grouped", "group_raised"} =>
         /\ Len(scored) = Len(articles)
         /\ Len(returned) = Len(articles)
         /\ Len(requests) \in {0, Len(articles)}

\* The call waits for the answer to its second request, the first article
\* being resolved and nothing returned yet.
C29_Witness ==
  /\ use_ai
  /\ pc = "await"
  /\ Len(articles) = 2
  /\ Len(scored) = 1
  /\ Len(requests) = 2
  /\ requests[2].item = 2
  /\ returned = <<>>

\* The client the claim says ai_score_article calls.
C30_ExpectedClient ==
  IF ai_provider = "anthropic" /\ anthropic_client THEN "anthropic"
  ELSE IF openai_client THEN "openai"
  ELSE "none"

\* C30: every request of a batch call with use_ai=True goes to the
\* Anthropic client when ai_provider is "anthropic" and that client exists,
\* else to the OpenAI client when it exists; when neither holds no request
\* is made and the items carry the quick scores; and a call with a client
\* to go to and an article does make its request.
C30_ClientSelection ==
  use_ai =>
    /\ \A i \in 1..Len(requests) : requests[i].provider = C30_ExpectedClient
    /\ C30_ExpectedClient = "none" =>
         /\ requests = <<>>
         /\ pc \in {"returned", "grouped", "group_raised"} =>
              returned = HeuristicOutput(articles)
    /\ (C30_ExpectedClient # "none" /\ articles # <<>> /\ pc # "idle") =>
         requests # <<>>

\* With ai_provider "anthropic" and an OpenAI client only, the batch has
\* returned after a request to the OpenAI client.
C30_Witness ==
  /\ use_ai
  /\ ai_provider = "anthropic"
  /\ ~anthropic_client
  /\ openai_client
  /\ pc = "returned"
  /\ requests # <<>>
  /\ requests[1].provider = "openai"
=============================================================================
